---- MODULE Spec2Model ----
(***************************************************************************)
(* Model of the two scripts of the medicines pipeline:                     *)
(*   scripts/convert-metadata-to-json.py    (the Normalizer)               *)
(*   scripts/migrate-medicines-to-sqlite.py (the Loader)                   *)
(* Both are modelled statement by statement; the files they read and write *)
(* (metadata.csv, medicines.json, medicines.db) are the persistent state.  *)
(***************************************************************************)
EXTENDS Integers, Sequences, FiniteSets, TLC

VARIABLES
    \* ---- files
    csvFile,        \* metadata.csv: Absent, or the rows csv.reader yields (header first)
    jsonFile,       \* medicines.json: Absent, or the serialized document
    db,             \* medicines.db: the committed content of the store
    \* ---- Normalizer process
    npc,            \* position in main / convert_csv_to_json
    records,        \* the list `records`
    line,           \* number of file rows the csv reader has consumed
    nret,           \* the value main has returned: <<>> until it returns, then <<0>> or <<1>>
    json0,          \* medicines.json as it was when the Normalizer started
    \* ---- Loader process
    pc,             \* position in migrate_json_to_sqlite / create_database
    medicines,      \* the list `medicines`
    conn,           \* the connection: "none", "open" or "closed"
    txn,            \* rows inserted in the open (uncommitted) transaction
    i,              \* loop variable of the batch loop
    j,              \* number of records of the current batch already executed
    total_inserted, \* the counter `total_inserted`
    exitCode,       \* the status passed to sys.exit: <<>> while it was not called
    commitLog,      \* rows covered by each conn.commit() of this run, in order
    db0,            \* the store as it was when this run started
    runs            \* number of Loader processes started so far

nvars == <<csvFile, npc, records, line, nret, json0>>
lvars == <<pc, medicines, conn, txn, i, j, total_inserted, exitCode, commitLog, db0, runs>>
vars == <<csvFile, jsonFile, db, npc, records, line, nret, json0,
          pc, medicines, conn, txn, i, j, total_inserted, exitCode, commitLog, db0, runs>>

(***************************************************************************)
(* Bounds of the model.                                                    *)
(***************************************************************************)
MaxRows == 2        \* data rows (blank lines included) of an input table
MaxRuns == 2        \* Loader processes started one after the other

(***************************************************************************)
(* Values.  A Python string is held as its decomposition                   *)
(*   lead whitespace ++ core ++ trail whitespace,                          *)
(* where core is the stripped text written in lowercase and `up` is the    *)
(* set of positions of core that are uppercase in the string.  A string of *)
(* whitespace only has core "" and all its whitespace counted in lead.     *)
(***************************************************************************)
Absent == [exists |-> FALSE, content |-> <<>>]
File(c) == [exists |-> TRUE, content |-> c]
None == [t |-> "None"]

Str(l, c, r, u) == [lead |-> l, core |-> c, trail |-> r, up |-> u]
Lit(c) == Str(0, c, 0, {})
EmptyStr == Lit("")

\* truth value of `v` in `v.strip() if v else v`
Truthy(v) == v # None /\ v # EmptyStr

\* str.lstrip() in the place of str.strip()
strip_LeftOnly(v) == [v EXCEPT !.lead = 0]

\* str.strip()
strip(v) == [v EXCEPT !.lead = 0, !.trail = 0]

\* str.lower()
lower(k) == [k EXCEPT !.up = {}]

Range(s) == {s[p] : p \in 1..Len(s)}

\* s[a:b] of a Python list (0-based, b exclusive), on a 1-based sequence
Slice(s, a, b) == SubSeq(s, a + 1, IF b < Len(s) THEN b ELSE Len(s))

(***************************************************************************)
(* The Normalizer: convert-metadata-to-json.py                             *)
(***************************************************************************)
LastPos(fieldnames, k) ==
    CHOOSE p \in 1..Len(fieldnames) :
        /\ fieldnames[p] = k
        /\ \A q \in (p + 1)..Len(fieldnames) : fieldnames[q] # k

FirstPos(fieldnames, k) ==
    IF k = None THEN Len(fieldnames) + 1
    ELSE CHOOSE p \in 1..Len(fieldnames) :
            /\ fieldnames[p] = k
            /\ \A q \in 1..(p - 1) : fieldnames[q] # k

\* csv.DictReader.__next__: dict(zip(fieldnames, row)), the surplus cells under
\* restkey (None), the missing cells as restval (None)
DictRow(fieldnames, row) ==
    LET lf == Len(fieldnames)
        lr == Len(row)
        keys == Range(fieldnames) \cup (IF lf < lr THEN {None} ELSE {})
    IN  [k \in keys |->
            IF k = None THEN [rest |-> SubSeq(row, lf + 1, lr)]
            ELSE LET p == LastPos(fieldnames, k)
                 IN  IF p <= lr THEN row[p] ELSE None]

\* k.lower() raises AttributeError on the key None
CleanRaises(d) == None \in DOMAIN d

\* v.strip() if v else v
CleanValue(v) == IF Truthy(v) THEN strip(v) ELSE v

\* {k.lower(): v.strip() if v else v for k, v in row.items()}: a later item
\* overwrites an earlier one with the same lowercase key
cleaned_row(fieldnames, d) ==
    [L \in {lower(k) : k \in DOMAIN d} |->
        LET same == {k \in DOMAIN d : lower(k) = L}
            winner == CHOOSE k \in same :
                        \A k2 \in same : FirstPos(fieldnames, k2) <= FirstPos(fieldnames, k)
        IN  CleanValue(d[winner])]

\* json.dump / json.load of a list of objects with string or null values
JsonValue(v) == IF v = None THEN [json |-> "null"] ELSE [json |-> "string", s |-> v]
PyValue(x) == IF x.json = "null" THEN None ELSE x.s
JsonDump(recs) == [p \in 1..Len(recs) |-> [k \in DOMAIN recs[p] |-> JsonValue(recs[p][k])]]
JsonLoad(doc) == [p \in 1..Len(doc) |-> [k \in DOMAIN doc[p] |-> PyValue(doc[p][k])]]

\* index of the next non-blank row after the reader's position, 0 if none
NextLine ==
    LET cand == {p \in (line + 1)..Len(csvFile.content) : csvFile.content[p] # <<>>}
    IN  IF cand = {} THEN 0 ELSE CHOOSE p \in cand : \A q \in cand : p <= q

\* main: the input is missing
NMissingInput ==
    /\ npc = "start"
    /\ ~csvFile.exists
    /\ npc' = "returned"
    /\ nret' = <<1>>
    /\ json0' = jsonFile
    /\ UNCHANGED <<csvFile, jsonFile, db, records, line>>
    /\ UNCHANGED lvars

\* a plain csv.reader in the place of the DictReader: the first row is read as
\* a data row
NOpen_HeaderAsData ==
    /\ npc = "start"
    /\ csvFile.exists
    /\ npc' = "rows"
    /\ records' = <<>>
    /\ line' = 0
    /\ json0' = jsonFile
    /\ UNCHANGED <<csvFile, jsonFile, db, nret>>
    /\ UNCHANGED lvars

\* main calls convert_csv_to_json: records = [], the file is opened and the
\* DictReader takes the first row as the field names
NOpen ==
    /\ npc = "start"
    /\ csvFile.exists
    /\ npc' = "rows"
    /\ records' = <<>>
    /\ line' = 1
    /\ json0' = jsonFile
    /\ UNCHANGED <<csvFile, jsonFile, db, nret>>
    /\ UNCHANGED lvars

\* one iteration of `for row in reader`
NRow ==
    /\ npc = "rows"
    /\ NextLine # 0
    /\ LET d == DictRow(csvFile.content[1], csvFile.content[NextLine])
       IN  IF CleanRaises(d)
           THEN /\ npc' = "raised"
                /\ UNCHANGED records
           ELSE /\ npc' = "rows"
                /\ records' = Append(records, cleaned_row(csvFile.content[1], d))
    /\ line' = NextLine
    /\ UNCHANGED <<csvFile, jsonFile, db, nret, json0>>
    /\ UNCHANGED lvars

\* the reader is exhausted: the document is written
NWrite ==
    /\ npc = "rows"
    /\ NextLine = 0
    /\ jsonFile' = File(JsonDump(records))
    /\ npc' = "written"
    /\ UNCHANGED <<csvFile, db, records, line, nret, json0>>
    /\ UNCHANGED lvars

\* main prints the summary and the sample and returns 0
NReturn ==
    /\ npc = "written"
    /\ npc' = "returned"
    /\ nret' = <<0>>
    /\ UNCHANGED <<csvFile, jsonFile, db, records, line, json0>>
    /\ UNCHANGED lvars

(***************************************************************************)
(* The Loader: migrate-medicines-to-sqlite.py                              *)
(***************************************************************************)
batch_size == 1000

\* columns of CREATE TABLE medicines, without the surrogate key
SchemaColumns ==
    << "registratienummer", "soort", "productnaam", "inschrijvingsdatum",
       "handelsvergunninghouder", "afleverstatus", "farmaceutischevorm",
       "potentie", "procedurenummer", "toedieningsweg", "aanvullendemonitoring",
       "smpc_filenaam", "bijsluiter_filenaam", "par_filenaam", "spar_filenaam",
       "armm_filenaam", "smpc_wijzig_datum", "bijsluiter_wijzig_datum",
       "atc", "werkzamestoffen", "hulpstoffen", "productdetail_link",
       "nieuws_links", "nieuws_link_datums", "referentie",
       "smpc_vorige_versie", "smpc_vorige_vorige_versie" >>

NotNullColumns == {"productnaam"}

\* column list of the INSERT statement
InsertColumns ==
    << "registratienummer", "soort", "productnaam", "inschrijvingsdatum",
       "handelsvergunninghouder", "afleverstatus", "farmaceutischevorm",
       "potentie", "procedurenummer", "toedieningsweg", "aanvullendemonitoring",
       "smpc_filenaam", "bijsluiter_filenaam", "par_filenaam", "spar_filenaam",
       "armm_filenaam", "smpc_wijzig_datum", "bijsluiter_wijzig_datum",
       "atc", "werkzamestoffen", "hulpstoffen", "productdetail_link",
       "nieuws_links", "nieuws_link_datums", "referentie",
       "smpc_vorige_versie", "smpc_vorige_vorige_versie" >>

\* the parameter tuple with the lines of 'soort' and 'productnaam' exchanged
ParamKeys_Swapped ==
    << "registratienummer", "productnaam", "soort", "inschrijvingsdatum",
       "handelsvergunninghouder", "afleverstatus", "farmaceutischevorm",
       "potentie", "procedurenummer", "toedieningsweg", "aanvullendemonitoring",
       "smpc_filenaam", "bijsluiter_filenaam", "par_filenaam", "spar_filenaam",
       "armm_filenaam", "smpc_wijzig_datum", "bijsluiter_wijzig_datum",
       "atc", "werkzamestoffen", "hulpstoffen", "productdetail_link",
       "nieuws_links", "nieuws_link_datums", "referentie",
       "smpc_vorige_versie", "smpc_vorige_vorige_versie" >>

\* keys of the medicine.get(...) calls, in the order of the parameter tuple
ParamKeys ==
    << "registratienummer", "soort", "productnaam", "inschrijvingsdatum",
       "handelsvergunninghouder", "afleverstatus", "farmaceutischevorm",
       "potentie", "procedurenummer", "toedieningsweg", "aanvullendemonitoring",
       "smpc_filenaam", "bijsluiter_filenaam", "par_filenaam", "spar_filenaam",
       "armm_filenaam", "smpc_wijzig_datum", "bijsluiter_wijzig_datum",
       "atc", "werkzamestoffen", "hulpstoffen", "productdetail_link",
       "nieuws_links", "nieuws_link_datums", "referentie",
       "smpc_vorige_versie", "smpc_vorige_vorige_versie" >>

Indexes ==
    << [name |-> "idx_productnaam", column |-> "productnaam"],
       [name |-> "idx_werkzamestoffen", column |-> "werkzamestoffen"],
       [name |-> "idx_farmaceutischevorm", column |-> "farmaceutischevorm"] >>

AbsentDb == [exists |-> FALSE, tables |-> {}, indexes |-> {}, rows |-> <<>>]
SqlError == [error |-> TRUE]

\* CREATE TABLE IF NOT EXISTS medicines (...)
CreateTable(d) ==
    IF \E t \in d.tables : t.name = "medicines"
    THEN d
    ELSE [d EXCEPT !.tables = @ \cup {[name |-> "medicines", columns |-> SchemaColumns]}]

\* CREATE INDEX without IF NOT EXISTS: an index of that name is an error
CreateIndex_NoIfNotExists(d, ix) ==
    IF \E x \in d.indexes : x.name = ix.name
    THEN SqlError
    ELSE IF \E t \in d.tables : t.name = "medicines" /\ ix.column \in Range(t.columns)
         THEN [d EXCEPT !.indexes = @ \cup {[name |-> ix.name, table |-> "medicines",
                                             column |-> ix.column]}]
         ELSE SqlError

\* CREATE INDEX IF NOT EXISTS <name> ON medicines(<column>)
CreateIndex(d, ix) ==
    IF \E x \in d.indexes : x.name = ix.name
    THEN d
    ELSE IF \E t \in d.tables : t.name = "medicines" /\ ix.column \in Range(t.columns)
         THEN [d EXCEPT !.indexes = @ \cup {[name |-> ix.name, table |-> "medicines",
                                             column |-> ix.column]}]
         ELSE SqlError

\* medicine.get(key, '')
Get(medicine, key) == IF Lit(key) \in DOMAIN medicine THEN medicine[Lit(key)] ELSE EmptyStr

\* the parameter tuple of the INSERT
Params(medicine) == [p \in 1..Len(ParamKeys) |-> Get(medicine, ParamKeys[p])]

\* the row INSERT builds: the p-th parameter in the p-th named column, NULL in
\* a column the statement does not name
InsertedCols(params) ==
    [c \in Range(SchemaColumns) |->
        IF \E p \in 1..Len(InsertColumns) : InsertColumns[p] = c
        THEN params[CHOOSE p \in 1..Len(InsertColumns) : InsertColumns[p] = c]
        ELSE None]

\* the INSERT fails: a NOT NULL column would hold NULL
InsertRaises(cols) == \E c \in NotNullColumns : cols[c] = None

\* the slice medicines[i:i+batch_size]
batch == Slice(medicines, i, i + batch_size)

\* the store is created before the input is looked for
LMissingInput_CreatesStore ==
    /\ pc = "start"
    /\ ~jsonFile.exists
    /\ pc' = "exited"
    /\ exitCode' = <<1>>
    /\ db' = CreateTable([db EXCEPT !.exists = TRUE])
    /\ UNCHANGED <<jsonFile, medicines, conn, txn, i, j, total_inserted, commitLog, db0, runs>>
    /\ UNCHANGED nvars

\* os.path.exists(json_path) is false: sys.exit(1)
LMissingInput ==
    /\ pc = "start"
    /\ ~jsonFile.exists
    /\ pc' = "exited"
    /\ exitCode' = <<1>>
    /\ UNCHANGED <<jsonFile, db, medicines, conn, txn, i, j, total_inserted, commitLog, db0, runs>>
    /\ UNCHANGED nvars

\* json.load of the document
LLoad ==
    /\ pc = "start"
    /\ jsonFile.exists
    /\ medicines' = JsonLoad(jsonFile.content)
    /\ pc' = "connect"
    /\ UNCHANGED <<jsonFile, db, conn, txn, i, j, total_inserted, exitCode, commitLog, db0, runs>>
    /\ UNCHANGED nvars

\* create_database: sqlite3.connect creates the store file when it is absent
LConnect ==
    /\ pc = "connect"
    /\ conn' = "open"
    /\ db' = [db EXCEPT !.exists = TRUE]
    /\ pc' = "table"
    /\ UNCHANGED <<jsonFile, medicines, txn, i, j, total_inserted, exitCode, commitLog, db0, runs>>
    /\ UNCHANGED nvars

\* create_database: the CREATE TABLE statement (DDL opens no transaction)
LCreateTable ==
    /\ pc = "table"
    /\ db' = CreateTable(db)
    /\ pc' = "index1"
    /\ UNCHANGED <<jsonFile, medicines, conn, txn, i, j, total_inserted, exitCode, commitLog, db0, runs>>
    /\ UNCHANGED nvars

IndexPc == <<"index1", "index2", "index3", "schema_commit">>

\* create_database: one of the three CREATE INDEX statements
LCreateIndex ==
    \E k \in 1..Len(Indexes) :
        /\ pc = IndexPc[k]
        /\ LET r == CreateIndex(db, Indexes[k])
           IN  IF r = SqlError
               THEN pc' = "failed" /\ UNCHANGED db
               ELSE pc' = IndexPc[k + 1] /\ db' = r
        /\ UNCHANGED <<jsonFile, medicines, conn, txn, i, j, total_inserted, exitCode, commitLog, db0, runs>>
        /\ UNCHANGED nvars

\* conn.commit(): the open transaction's rows become durable
Commit(d, t) == [d EXCEPT !.rows = @ \o t]

\* create_database: conn.commit(); back in migrate_json_to_sqlite the loop starts
LSchemaCommit ==
    /\ pc = "schema_commit"
    /\ db' = Commit(db, txn)
    /\ commitLog' = Append(commitLog, Len(txn))
    /\ txn' = <<>>
    /\ total_inserted' = 0
    /\ i' = 0
    /\ pc' = "loop"
    /\ UNCHANGED <<jsonFile, medicines, conn, j, exitCode, db0, runs>>
    /\ UNCHANGED nvars

\* head of `for i in range(0, len(medicines), batch_size)`: a next batch
LBatch ==
    /\ pc = "loop"
    /\ i < Len(medicines)
    /\ j' = 0
    /\ pc' = "insert"
    /\ UNCHANGED <<jsonFile, db, medicines, conn, txn, i, total_inserted, exitCode, commitLog, db0, runs>>
    /\ UNCHANGED nvars

\* conn.commit() inside the inner loop, after every row
LInsert_CommitsRow ==
    /\ pc = "insert"
    /\ j < Len(batch)
    /\ LET cols == InsertedCols(Params(batch[j + 1]))
       IN  /\ ~InsertRaises(cols)
           /\ db' = [db EXCEPT !.rows = @ \o Append(txn, [id |-> Len(db.rows) + Len(txn) + 1,
                                                          cols |-> cols])]
    /\ commitLog' = Append(commitLog, Len(txn) + 1)
    /\ txn' = <<>>
    /\ j' = j + 1
    /\ UNCHANGED <<jsonFile, medicines, conn, i, pc, total_inserted, exitCode, db0, runs>>
    /\ UNCHANGED nvars

\* cursor.execute(INSERT ...) of the next record of the batch succeeds
LInsert ==
    /\ pc = "insert"
    /\ j < Len(batch)
    /\ LET cols == InsertedCols(Params(batch[j + 1]))
       IN  /\ ~InsertRaises(cols)
           /\ txn' = Append(txn, [id |-> Len(db.rows) + Len(txn) + 1, cols |-> cols])
    /\ j' = j + 1
    /\ UNCHANGED <<jsonFile, db, medicines, conn, i, pc, total_inserted, exitCode, commitLog, db0, runs>>
    /\ UNCHANGED nvars

\* position in the batch of the first record whose INSERT raises, one past the
\* end of the batch if none does
FirstRaising ==
    LET bad == {q \in 1..Len(batch) : InsertRaises(InsertedCols(Params(batch[q])))}
    IN  IF bad = {} THEN Len(batch) + 1 ELSE CHOOSE q \in bad : \A q2 \in bad : q <= q2

\* the inner loop `for medicine in batch` runs undisturbed from the first record
\* of the batch up to its end, or up to the record whose INSERT raises
LInsertBatch ==
    /\ pc = "insert"
    /\ j = 0
    /\ FirstRaising > 1
    /\ txn' = txn \o [q \in 1..(FirstRaising - 1) |->
                        [id |-> Len(db.rows) + Len(txn) + q,
                         cols |-> InsertedCols(Params(batch[q]))]]
    /\ j' = FirstRaising - 1
    /\ UNCHANGED <<jsonFile, db, medicines, conn, i, pc, total_inserted, exitCode, commitLog, db0, runs>>
    /\ UNCHANGED nvars

\* cursor.execute(INSERT ...) raises; nothing catches it
LInsertError ==
    /\ pc = "insert"
    /\ j < Len(batch)
    /\ InsertRaises(InsertedCols(Params(batch[j + 1])))
    /\ pc' = "failed"
    /\ UNCHANGED <<jsonFile, db, medicines, conn, txn, i, j, total_inserted, exitCode, commitLog, db0, runs>>
    /\ UNCHANGED nvars

\* the end of the batch without its conn.commit()
LCommit_NoCommit ==
    /\ pc = "insert"
    /\ j = Len(batch)
    /\ total_inserted' = total_inserted + Len(batch)
    /\ i' = i + batch_size
    /\ pc' = "loop"
    /\ UNCHANGED <<jsonFile, db, medicines, conn, txn, j, exitCode, commitLog, db0, runs>>
    /\ UNCHANGED nvars

\* total_inserted += batch_size in the place of += len(batch)
LCommit_CountsBatchSize ==
    /\ pc = "insert"
    /\ j = Len(batch)
    /\ db' = [db EXCEPT !.rows = @ \o txn]
    /\ commitLog' = Append(commitLog, Len(txn))
    /\ txn' = <<>>
    /\ total_inserted' = total_inserted + batch_size
    /\ i' = i + batch_size
    /\ pc' = "loop"
    /\ UNCHANGED <<jsonFile, medicines, conn, j, exitCode, db0, runs>>
    /\ UNCHANGED nvars

\* end of the batch: conn.commit(), total_inserted += len(batch)
LCommit ==
    /\ pc = "insert"
    /\ j = Len(batch)
    /\ db' = Commit(db, txn)
    /\ commitLog' = Append(commitLog, Len(txn))
    /\ txn' = <<>>
    /\ total_inserted' = total_inserted + Len(batch)
    /\ i' = i + batch_size
    /\ pc' = "loop"
    /\ UNCHANGED <<jsonFile, medicines, conn, j, exitCode, db0, runs>>
    /\ UNCHANGED nvars

\* the loop is over: conn.close() and the final summary
LClose ==
    /\ pc = "loop"
    /\ i >= Len(medicines)
    /\ conn' = "closed"
    /\ pc' = "done"
    /\ UNCHANGED <<jsonFile, db, medicines, txn, i, j, total_inserted, exitCode, commitLog, db0, runs>>
    /\ UNCHANGED nvars

Running == {"start", "connect", "table", "index1", "index2", "index3",
            "schema_commit", "loop", "insert"}
Ended == {"done", "exited", "failed", "killed"}

\* the process is terminated from outside: its memory is gone and the open
\* transaction is never committed
LKill ==
    /\ pc \in Running
    /\ pc' = "killed"
    /\ medicines' = <<>>
    /\ conn' = "none"
    /\ txn' = <<>>
    /\ i' = 0
    /\ j' = 0
    /\ total_inserted' = 0
    /\ UNCHANGED <<jsonFile, db, exitCode, commitLog, db0, runs>>
    /\ UNCHANGED nvars

\* the script is started again against the same files
LRestart ==
    /\ pc \in Ended
    /\ runs < MaxRuns
    /\ runs' = runs + 1
    /\ pc' = "start"
    /\ medicines' = <<>>
    /\ conn' = "none"
    /\ txn' = <<>>
    /\ i' = 0
    /\ j' = 0
    /\ total_inserted' = 0
    /\ exitCode' = <<>>
    /\ commitLog' = <<>>
    /\ db0' = db
    /\ UNCHANGED <<jsonFile, db>>
    /\ UNCHANGED nvars

(***************************************************************************)
(* Inputs.                                                                 *)
(***************************************************************************)
\* header rows; a name is `core` with the letters at the positions `up` in
\* uppercase: ProductNaam|Soort, SOORT|productnaam, Extra|Soort|soort and the
\* 27 schema names capitalised
Headers ==
    { << Str(0, "productnaam", 0, {1, 8}), Str(0, "soort", 0, {1}) >>,
      << Str(0, "soort", 0, 1..5), Lit("productnaam") >>,
      << Str(0, "extra", 0, {1}), Str(0, "soort", 0, {1}), Lit("soort") >>,
      [p \in 1..Len(SchemaColumns) |-> Str(0, SchemaColumns[p], 0, {1})] }

CellKinds == {"padded", "void"}

\* the cell of data row r, column c: a capitalised text unique to (r, c) between
\* two spaces, or (kind "void") a single space in odd columns and nothing in
\* even ones
Cell(kind, r, c) ==
    IF kind = "padded" THEN Str(1, ToString(100 * r + c), 1, {1})
    ELSE IF c % 2 = 1 THEN Str(1, "", 0, {})
    ELSE EmptyStr

\* a data row: one cell short or full and, under the short headers, also a
\* blank line, full of void cells, or one cell long
RowShapes(h) ==
    { [len |-> Len(h) - 1, kind |-> "padded"],
      [len |-> Len(h), kind |-> "padded"] }
        \cup (IF Len(h) < Len(SchemaColumns)
              THEN { [len |-> 0, kind |-> "void"],
                     [len |-> Len(h), kind |-> "void"],
                     [len |-> Len(h) + 1, kind |-> "padded"] }
              ELSE {})

Tables ==
    UNION { UNION { { <<h>> \o [r \in 1..n |-> [c \in 1..shapes[r].len |-> Cell(shapes[r].kind, r, c)]]
                      : shapes \in [1..n -> RowShapes(h)] }
                    : n \in 0..MaxRows }
            : h \in Headers }

\* a document and a store left by an earlier complete run over one record
OldRecord == (Lit("productnaam") :> Lit("old"))
OldDocument == JsonDump(<< OldRecord >>)
PriorDb ==
    LET schema == CreateIndex(CreateIndex(CreateIndex(
                      CreateTable([AbsentDb EXCEPT !.exists = TRUE]),
                      Indexes[1]), Indexes[2]), Indexes[3])
    IN  Commit(schema, << [id |-> 1, cols |-> InsertedCols(Params(OldRecord))] >>)

\* a document of n records, the one at position `bad` (if any) with a null
\* product name
Doc(n, bad) ==
    [p \in 1..n |-> (Lit("productnaam") :> (IF p = bad THEN None ELSE Lit(ToString(p))))]

\* medicines.json and medicines.db before the pipeline runs
PipelineFiles ==
    { <<Absent, AbsentDb>>, <<File(OldDocument), PriorDb>> }

\* medicines.json and medicines.db before a Loader run over 0, 1, 1000 and 2500
\* records, and over 2500 records the 1003rd of which has no product name
BatchFiles ==
    { <<Absent, PriorDb>>,
      <<File(JsonDump(Doc(0, 0))), AbsentDb>>,
      <<File(JsonDump(Doc(1, 0))), PriorDb>>,
      <<File(JsonDump(Doc(batch_size, 0))), AbsentDb>>,
      <<File(JsonDump(Doc(2 * batch_size + 500, 0))), PriorDb>>,
      <<File(JsonDump(Doc(2 * batch_size + 500, batch_size + 3))), AbsentDb>> }

LoaderInit ==
    /\ pc = "start"
    /\ medicines = <<>>
    /\ conn = "none"
    /\ txn = <<>>
    /\ i = 0
    /\ j = 0
    /\ total_inserted = 0
    /\ exitCode = <<>>
    /\ commitLog = <<>>
    /\ db0 = db
    /\ runs = 1

NormalizerInit ==
    /\ npc = "start"
    /\ records = <<>>
    /\ line = 0
    /\ nret = <<>>
    /\ json0 = jsonFile

\* the pipeline: a table to normalize, then load
Init ==
    /\ csvFile \in {Absent} \cup {File(t) : t \in Tables}
    /\ \E f \in PipelineFiles : jsonFile = f[1] /\ db = f[2]
    /\ NormalizerInit
    /\ LoaderInit

NormalizerNext ==
    \/ NMissingInput
    \/ NOpen
    \/ NRow
    \/ NWrite
    \/ NReturn

LoaderNext ==
    \/ LMissingInput
    \/ LLoad
    \/ LConnect
    \/ LCreateTable
    \/ LCreateIndex
    \/ LSchemaCommit
    \/ LBatch
    \/ LInsert
    \/ LInsertBatch
    \/ LInsertError
    \/ LCommit
    \/ LClose
    \/ LKill

Next ==
    \/ NormalizerNext
    \/ LoaderNext
    \/ LRestart

Spec == Init /\ [][Next]_vars

\* one Loader run over a document of several batches
InitBatch ==
    /\ csvFile = Absent
    /\ \E f \in BatchFiles : jsonFile = f[1] /\ db = f[2]
    /\ NormalizerInit
    /\ LoaderInit

SpecBatch == InitBatch /\ [][LoaderNext]_vars

(***************************************************************************)
(* Properties.                                                             *)
(***************************************************************************)
\* sizes of the batches of n records: ceil(n / batch_size) of them
ExpectedBatches(n) ==
    [k \in 1..((n + batch_size - 1) \div batch_size) |->
        IF k * batch_size <= n THEN batch_size ELSE n - (k - 1) * batch_size]

\* the record at position p of medicines.json
FileRecord(p) == JsonLoad(jsonFile.content)[p]

\* number of rows this run has committed
CommittedByRun == Len(db.rows) - Len(db0.rows)

\* C1 as stated: a completed Loader run over N records has performed exactly
\* ceil(N/1000) commits on the store, one per batch, covering the batches in order
\* (1000, 1000, 500 for N = 2500).
C1_OnlyBatchCommits ==
    pc = "done" => commitLog = ExpectedBatches(Len(medicines))

\* C1 amended: a completed Loader run over N records has performed exactly
\* 1 + ceil(N/1000) commits: the commit of create_database, which covers no row,
\* then one per batch, covering the batches in order.
C1_SchemaThenBatchCommits ==
    pc = "done" => commitLog = <<0>> \o ExpectedBatches(Len(medicines))

C1_Witness ==
    /\ pc = "done"
    /\ Len(medicines) = 2500
    /\ commitLog = <<0, 1000, 1000, 500>>

\* C2: in every state the rows this run has committed are a prefix of the
\* record sequence, whole batches only (a multiple of 1000 rows, or all N), after
\* the rows the store held before; a run stopped by a failing insert in batch k
\* has committed exactly the batches 1..k-1, and a stopped run's committed rows
\* are exactly the rows of those records.
C2_BatchAtomic ==
    LET n0 == Len(db0.rows)
        n == CommittedByRun
        N == Len(jsonFile.content)
    IN  /\ n >= 0 /\ n <= N
        /\ n % batch_size = 0 \/ n = N
        /\ SubSeq(db.rows, 1, n0) = db0.rows
        /\ \A p \in 1..n :
            /\ db.rows[n0 + p].id = n0 + p
            /\ db.rows[n0 + p].cols["productnaam"] = Get(FileRecord(p), "productnaam")
        /\ pc = "failed" => n = i
        /\ pc \in {"failed", "killed"} =>
            \A p \in 1..n : db.rows[n0 + p].cols = InsertedCols(Params(FileRecord(p)))

C2_Witness ==
    /\ pc = "failed"
    /\ CommittedByRun = batch_size
    /\ Len(txn) > 0
    /\ Len(medicines) > 2 * batch_size

\* C3: every row the Loader inserts holds, in each of the 27 columns whose field
\* has a text value in the Record, that value.
C3_ColumnsAligned ==
    pc = "insert" =>
        /\ Len(txn) = j
        /\ \A q \in 1..Len(txn) : \A f \in Range(SchemaColumns) :
            (Lit(f) \in DOMAIN batch[q] /\ batch[q][Lit(f)] # None)
                => txn[q].cols[f] = batch[q][Lit(f)]

C3_Witness ==
    /\ pc = "insert"
    /\ \E q \in 1..Len(txn) :
        /\ \A f \in Range(SchemaColumns) :
            /\ Lit(f) \in DOMAIN batch[q]
            /\ batch[q][Lit(f)] # None
            /\ batch[q][Lit(f)].core # ""
        /\ Cardinality({batch[q][Lit(f)] : f \in Range(SchemaColumns)}) = Len(SchemaColumns)
        /\ Cardinality({txn[q].cols[f] : f \in Range(SchemaColumns)}) = Len(SchemaColumns)

\* C4: every row the Loader inserts holds the empty string in each of the 27
\* columns whose field is missing from the Record or has no value in it.
C4_AbsentIsEmpty ==
    pc = "insert" =>
        \A q \in 1..Len(txn) : \A f \in Range(SchemaColumns) :
            (Lit(f) \notin DOMAIN batch[q] \/ batch[q][Lit(f)] = None)
                => txn[q].cols[f] = EmptyStr

\* C5: a Loader run that finds no input document exits with status 1 with the
\* store as it was and no connection opened, and only such a run goes on without
\* the document; a Normalizer run that finds no input table returns 1 with the
\* output document as it was, and only with the table it goes on.
C5_MissingInput ==
    /\ pc = "exited" =>
        /\ exitCode = <<1>>
        /\ db = db0
        /\ conn = "none"
        /\ commitLog = <<>>
    /\ pc \in {"connect", "table", "index1", "index2", "index3", "schema_commit",
               "loop", "insert", "done", "failed"} => jsonFile.exists
    /\ exitCode # <<>> => pc = "exited"
    /\ nret = <<1>> => (jsonFile = json0 /\ ~csvFile.exists /\ records = <<>>)
    /\ npc \in {"rows", "written", "raised"} => csvFile.exists

C5_Witness ==
    /\ pc = "exited"
    /\ exitCode = <<1>>
    /\ ~db.exists
    /\ nret = <<1>>
    /\ ~jsonFile.exists

HeaderRow == csvFile.content[1]
DataRows == SubSeq(csvFile.content, 2, Len(csvFile.content))
NonBlankRows == SelectSeq(DataRows, LAMBDA r : r # <<>>)
Emitted == JsonLoad(jsonFile.content)

\* the cell of column c of a row, None where the row has no such cell
CellAt(row, c) == IF c <= Len(row) THEN row[c] ELSE None

\* the value expected for a cell: absent stays absent, empty stays empty, a
\* text loses the whitespace around it and keeps its letters
RefValue(v) ==
    IF v = None THEN None
    ELSE IF v.lead = 0 /\ v.core = "" THEN v
    ELSE Str(0, v.core, 0, v.up)

\* no other header name has the lowercase form of the c-th
UniqueLower(c) ==
    \A c2 \in 1..Len(HeaderRow) :
        c2 # c => [HeaderRow[c2] EXCEPT !.up = {}] # [HeaderRow[c] EXCEPT !.up = {}]

SameLower(c) ==
    {c2 \in 1..Len(HeaderRow) :
        [HeaderRow[c2] EXCEPT !.up = {}] = [HeaderRow[c] EXCEPT !.up = {}]}

\* rec has, for each header name (of unique lowercase form), the cell of row
BuiltFrom(rec, row) ==
    \A c \in 1..Len(HeaderRow) :
        UniqueLower(c) =>
            /\ [HeaderRow[c] EXCEPT !.up = {}] \in DOMAIN rec
            /\ rec[[HeaderRow[c] EXCEPT !.up = {}]] = RefValue(CellAt(row, c))

\* C6 as stated: the document the Normalizer writes has one Record per data
\* row, the i-th built from the i-th data row.
C6_RecordPerDataRow ==
    (npc \in {"written", "returned"} /\ nret # <<1>>) =>
        /\ Len(Emitted) = Len(DataRows)
        /\ \A p \in 1..Len(Emitted) : BuiltFrom(Emitted[p], DataRows[p])

\* C6 amended: the document the Normalizer writes has one Record per non-blank
\* data row, the i-th built from the i-th non-blank data row, and is written only
\* when no data row has more cells than the header; when one has, the Normalizer
\* raises and leaves the output document as it was.
C6_RecordPerNonBlankRow ==
    /\ (npc \in {"written", "returned"} /\ nret # <<1>>) =>
        /\ Len(Emitted) = Len(NonBlankRows)
        /\ \A p \in 1..Len(Emitted) : BuiltFrom(Emitted[p], NonBlankRows[p])
        /\ \A p \in 1..Len(DataRows) : Len(DataRows[p]) <= Len(HeaderRow)
    /\ npc = "raised" =>
        /\ jsonFile = json0
        /\ \E p \in 1..Len(DataRows) : Len(DataRows[p]) > Len(HeaderRow)

C6_Witness ==
    /\ npc = "written"
    /\ Len(DataRows) = 2
    /\ DataRows[1] = <<>>
    /\ DataRows[2] # <<>>
    /\ Len(Emitted) = 1

\* every key of rec is lowercase, is the lowercase form of a header name, and
\* no text value of rec begins or ends with whitespace
CleanRecord(rec) ==
    /\ DOMAIN rec = {[HeaderRow[c] EXCEPT !.up = {}] : c \in 1..Len(HeaderRow)}
    /\ \A k \in DOMAIN rec :
        /\ k.up = {}
        /\ rec[k] # None => (rec[k].lead = 0 /\ rec[k].trail = 0)

\* C7 as stated: each emitted Record has exactly the lowercase header names as
\* keys, and under the lowercase form of every header name the value of that
\* column's cell, stripped if it is a non-empty text and absent if it is absent.
C7_RecordIsReference ==
    npc \in {"rows", "written", "returned", "raised"} =>
        /\ Len(records) <= Len(NonBlankRows)
        /\ \A p \in 1..Len(records) :
            /\ CleanRecord(records[p])
            /\ \A c \in 1..Len(HeaderRow) :
                records[p][[HeaderRow[c] EXCEPT !.up = {}]]
                    = RefValue(CellAt(NonBlankRows[p], c))

\* C7 amended: as C7, the value being that of the column's own cell for every
\* header name whose lowercase form no other header name has, and that of one of
\* the columns sharing the lowercase form otherwise.
C7_RecordIsReferenceUpToCase ==
    npc \in {"rows", "written", "returned", "raised"} =>
        /\ Len(records) <= Len(NonBlankRows)
        /\ \A p \in 1..Len(records) :
            /\ CleanRecord(records[p])
            /\ \A c \in 1..Len(HeaderRow) :
                \E c2 \in SameLower(c) :
                    records[p][[HeaderRow[c] EXCEPT !.up = {}]]
                        = RefValue(CellAt(NonBlankRows[p], c2))

C7_Witness ==
    /\ npc = "written"
    /\ \E p \in 1..Len(records) : \E c1, c2 \in 1..Len(HeaderRow) :
        /\ HeaderRow[c1].up # {}
        /\ NonBlankRows[p][c1].lead > 0
        /\ NonBlankRows[p][c1].trail > 0
        /\ records[p][[HeaderRow[c1] EXCEPT !.up = {}]].core # ""
        /\ c2 > Len(NonBlankRows[p])
        /\ records[p][[HeaderRow[c2] EXCEPT !.up = {}]] = None

\* the schema create_database leaves
MedicinesTable == [name |-> "medicines", columns |-> SchemaColumns]
MedicinesIndexes ==
    {[name |-> Indexes[k].name, table |-> "medicines", column |-> Indexes[k].column] : k \in 1..3}

\* C8: create_database never raises, whatever the store held; once it has
\* returned the store holds exactly the medicines table and its three indexes,
\* and the rows are those the store held before the call.
C8_SchemaIdempotent ==
    /\ pc = "failed" => Len(commitLog) >= 1
    /\ (pc \in {"loop", "insert", "done", "failed"}) =>
        /\ db.exists
        /\ db.tables = {MedicinesTable}
        /\ db.indexes = MedicinesIndexes
        /\ Cardinality(db.indexes) = 3
    /\ (pc = "loop" /\ Len(commitLog) = 1) => db.rows = db0.rows

C8_Witness ==
    /\ pc = "loop"
    /\ Len(commitLog) = 1
    /\ runs = 2
    /\ db0.tables = {MedicinesTable}
    /\ db0.indexes = MedicinesIndexes
    /\ db0.rows # <<>>

\* C9 as stated: after a completed run over N records the table holds exactly N
\* rows and the reported total is N.
C9_TableHoldsN ==
    pc = "done" =>
        /\ Len(db.rows) = Len(medicines)
        /\ total_inserted = Len(medicines)

\* C9 amended: after a completed run over N records the table holds the rows it
\* held before the run followed by exactly N new rows, the p-th new row being
\* that of the p-th Record, and the reported total is N.
C9_TableGainsN ==
    pc = "done" =>
        /\ Len(db.rows) = Len(db0.rows) + Len(medicines)
        /\ total_inserted = Len(medicines)
        /\ SubSeq(db.rows, 1, Len(db0.rows)) = db0.rows
        /\ \A p \in 1..Len(medicines) :
            /\ db.rows[Len(db0.rows) + p].id = Len(db0.rows) + p
            /\ db.rows[Len(db0.rows) + p].cols["productnaam"]
                   = Get(medicines[p], "productnaam")

C9_Witness ==
    /\ pc = "done"
    /\ Len(medicines) = 2500
    /\ Len(db0.rows) = 1
    /\ total_inserted = 2500

\* C10: whenever migrate_json_to_sqlite has been left after the connection was
\* opened, by completing or by a propagating insert error, the connection has
\* been closed.
C10_ClosedOnExit ==
    pc \in {"done", "failed"} => conn = "closed"

====
